---- MODULE Spec2Model ----
(***************************************************************************)
(* A model of modbus_client: the ModbusClient class (client.py), which     *)
(* opens a fresh TCP connection for every register transaction, and the    *)
(* command handlers of the command-line interface (cli.py) that parse and  *)
(* validate the user's values and dispatch to the client's methods.        *)
(*                                                                         *)
(* The pymodbus transport (ModbusTcpClient) is the environment: each of    *)
(* its calls is recorded in `log`, and its outcome is a nondeterministic   *)
(* choice among the outcomes the library can produce.                      *)
(***************************************************************************)
EXTENDS Integers, Sequences, FiniteSets, TLC

\* ------------------------------------------------------------------ bounds

\* Longest --values list, and longest list given to a client method.
MaxValues == 3
\* Largest count given to a read.
MaxCount == 2
\* How far beyond the 16-bit ranges the inputs of the encoding checks go.
Margin == 2

\* -------------------------------------------------------- program constants

\* client.py:51, `value < 32768`
SignBit == 32768
\* client.py:51, `value - 65536`
Modulus == 65536
\* client.py:56, `0xFFFF`
Mask16 == 65535
\* client.py:169 / 204, cli.py:362
SignedMin == -32768
SignedMax == 32767
\* client.py:173 / 208, cli.py:368
UnsignedMin == 0
UnsignedMax == 65535
\* The width of the mask 0xFFFF, in bits.
MaskBits == 16

\* ------------------------------------------------------------- Encoding

RECURSIVE Pow2(_)
Pow2(k) == IF k = 0 THEN 1 ELSE 2 * Pow2(k - 1)

\* Bit k of a Python int: integers are two's complement of unbounded width,
\* so bit k of a negative number is taken after floor division.
BitAt(v, k) == (v \div Pow2(k)) % 2

\* Python's `a & b` for a mask b >= 0 that fits in `nbits` bits.
RECURSIVE BitAnd(_, _, _)
BitAnd(a, b, nbits) ==
    IF nbits = 0 THEN 0
    ELSE BitAnd(a, b, nbits - 1)
         + BitAt(a, nbits - 1) * BitAt(b, nbits - 1) * Pow2(nbits - 1)

\* A _to_signed that takes 32768, the sign bit alone, for positive.
_to_signed_off_by_one(value) == IF value <= SignBit THEN value ELSE value - Modulus

\* ModbusClient._to_signed
_to_signed(value) == IF value < SignBit THEN value ELSE value - Modulus

\* ModbusClient._to_unsigned
_to_unsigned(value) == BitAnd(value, Mask16, MaskBits)

\* --------------------------------------------------------- range validation

\* A handle_write that forgets the range test of the signed mode.
CliInRange_signed_unchecked(v, is_signed) ==
    IF is_signed THEN TRUE
    ELSE UnsignedMin <= v /\ v <= UnsignedMax

\* The range test of handle_write (cli.py), before any client method is called.
CliInRange(v, is_signed) ==
    IF is_signed THEN SignedMin <= v /\ v <= SignedMax
    ELSE UnsignedMin <= v /\ v <= UnsignedMax

\* A write_holding_register whose signed range is one too wide.
RegisterInRange_off_by_one(value, is_signed) ==
    IF is_signed THEN SignedMin <= value /\ value <= SignedMax + 1
    ELSE UnsignedMin <= value /\ value <= UnsignedMax

\* The range test of ModbusClient.write_holding_register.
RegisterInRange(value, is_signed) ==
    IF is_signed THEN SignedMin <= value /\ value <= SignedMax
    ELSE UnsignedMin <= value /\ value <= UnsignedMax

\* The range test of ModbusClient.write_holding_registers, for one value.
RegistersInRange(v, is_signed) ==
    IF is_signed THEN SignedMin <= v /\ v <= SignedMax
    ELSE UnsignedMin <= v /\ v <= UnsignedMax

\* ------------------------------------------------------- parsing (cli.py)

Digits == <<"0", "1", "2", "3", "4", "5", "6", "7", "8", "9">>

IsDigit(c) == \E d \in 1..Len(Digits) : Digits[d] = c

DigitVal(c) == (CHOOSE d \in 1..Len(Digits) : Digits[d] = c) - 1

\* The value of a non-empty run of decimal digits, most significant first.
RECURSIVE DigitsVal(_)
DigitsVal(ds) ==
    IF Len(ds) = 0 THEN 0
    ELSE 10 * DigitsVal(SubSeq(ds, 1, Len(ds) - 1)) + DigitVal(ds[Len(ds)])

\* Python's int(v) of a command-line word, a sequence of characters: an
\* optional sign and then decimal digits; anything else raises ValueError.
\* (The words of the model hold no blank and no underscore.)
ParseInt(v) ==
    LET is_signed == Len(v) > 0 /\ v[1] \in {"-", "+"}
        ds == IF is_signed THEN SubSeq(v, 2, Len(v)) ELSE v
        ok == Len(ds) > 0 /\ \A k \in 1..Len(ds) : IsDigit(ds[k])
    IN  IF ~ok THEN [ok |-> FALSE, val |-> 0]
        ELSE [ok |-> TRUE,
              val |-> IF is_signed /\ v[1] = "-" THEN 0 - DigitsVal(ds)
                      ELSE DigitsVal(ds)]

\* str.lower() of the --register-type words the model uses.
Lower(t) == IF t = "Input" THEN "input" ELSE t

\* The enumerate() index of the first element that fails its test, oks[k]
\* telling whether the k-th element passes; -1 when all pass.
FirstBad(oks) ==
    IF \A k \in 1..Len(oks) : oks[k] THEN -1
    ELSE (CHOOSE k \in 1..Len(oks) :
              ~oks[k] /\ \A j \in 1..(k - 1) : oks[j]) - 1

\* ---------------------------------------------------------------- state

VARIABLES
    pc,       \* where the program is: "idle", "enter", "connect", "request",
              \* "close", "done"
    args,     \* the command line of the running command (argparse's namespace)
    frame,    \* the handler's locals: address, signed, parsed, and the loop index i
    call,     \* the client method being executed, with its arguments
    open,     \* the number of TCP connections that are open
    log,      \* the calls made on the transport since the command started
    inflight, \* what the try block of the method produced, before `finally`
    out,      \* the outcome of the command: exit status, error, results
    enc       \* the encoding functions applied to one input (specification SpecEnc)

vars == <<pc, args, frame, call, open, log, inflight, out, enc>>

prog == <<pc, args, frame, call, open, log, inflight, out>>

NoArgs == [command |-> "none", register_type |-> "holding", address |-> 0,
           count |-> 0, values |-> <<>>, unsigned |-> FALSE,
           write_mode |-> "multiple"]
NoFrame == [address |-> 0, signed |-> TRUE, parsed |-> <<>>, i |-> 0]
NoCall == [method |-> "none", address |-> 0, count |-> 0, values |-> <<>>,
           signed |-> TRUE, raw |-> <<>>]
NoFlight == [exc |-> "none", values |-> <<>>]
NoOut == [rc |-> -1, error |-> "none", value |-> 0, position |-> 0,
          index |-> -1, results |-> <<>>]
NoEnc == [x |-> 0, val |-> 0, steps |-> <<>>, is_signed |-> TRUE,
          verdict |-> <<>>]

\* ------------------------------------------------------ inputs of the model

Word(n) ==
    CASE n = 1500 -> <<"1", "5", "0", "0">>
      [] n = -200 -> <<"-", "2", "0", "0">>
      [] n = 300 -> <<"3", "0", "0">>
      [] n = 40000 -> <<"4", "0", "0", "0", "0">>
      [] n = 0 -> <<"0">>
      [] n = 1 -> <<"1">>

\* The words a --values list is made of: numbers, and one that is no number.
TokenPool == {Word(1500), Word(-200), Word(300), Word(40000), Word(0), Word(1),
              <<"x">>}
\* The integers a list given to a client method directly is made of.
IntPool == {1500, -200, 40000}
\* The 16-bit words a device answers a register read with.
RegPool == {0, 1500, 32768, 65336}
AddrPool == {0, 100}
RegTypePool == {"holding", "input", "coil", "discrete", "Input", "bogus"}

SeqsUpTo(S, lo, hi) == UNION {[1..k -> S] : k \in lo..hi}

\* ------------------------------------------------- handle_write (cli.py)

NoVerdict == [error |-> "none", value |-> 0, word |-> <<>>, position |-> 0,
              parsed |-> <<>>]

\* A handle_write that takes every number for a coil value (bool(int(v))).
CoilWordOk_any_number(v) == ParseInt(v).ok

\* handle_write: the words accepted as a coil value, `v in ("0", "1")`.
CoilWordOk(v) == v \in {<<"0">>, <<"1">>}

\* handle_write up to the end of "Parse and validate", reg_type being the
\* lower-cased --register-type: the error it reports and returns 1 with, or
\* "none" and the parsed values.
WriteCheckFor(a, reg_type) ==
    LET is_signed == ~a.unsigned
        ints == [k \in 1..Len(a.values) |-> ParseInt(a.values[k])]
        unparsed == FirstBad([k \in 1..Len(a.values) |-> ints[k].ok])
        parsed == [k \in 1..Len(a.values) |-> ints[k].val]
        bad == FirstBad([k \in 1..Len(a.values) |->
                            CliInRange(parsed[k], is_signed)])
        badcoil == FirstBad([k \in 1..Len(a.values) |->
                                CoilWordOk(a.values[k])])
    IN  IF reg_type \in {"input", "discrete"}
        THEN [NoVerdict EXCEPT !.error = "read_only"]
        ELSE IF reg_type \notin {"holding", "coil"}
        THEN [NoVerdict EXCEPT !.error = "unknown_type"]
        ELSE IF reg_type = "holding"
        THEN IF unparsed >= 0
             THEN [NoVerdict EXCEPT !.error = "invalid_value",
                                    !.word = a.values[unparsed + 1]]
             ELSE IF bad >= 0
             THEN [NoVerdict EXCEPT !.error = "out_of_range",
                                    !.value = parsed[bad + 1],
                                    !.position = bad + 1]
             ELSE [NoVerdict EXCEPT !.parsed = parsed]
        ELSE IF badcoil >= 0
             THEN [NoVerdict EXCEPT !.error = "invalid_coil",
                                    !.word = a.values[badcoil + 1],
                                    !.position = badcoil + 1]
             ELSE [NoVerdict EXCEPT !.parsed =
                       [k \in 1..Len(a.values) |-> ints[k].val # 0]]

\* A handle_write that tests the register type for "holding" alone and takes
\* every other type for coils.
WriteCheck_types_unchecked(a) ==
    WriteCheckFor(a, IF Lower(a.register_type) = "holding" THEN "holding"
                     ELSE "coil")

WriteCheck(a) == WriteCheckFor(a, Lower(a.register_type))

\* handle_write, "Execute write": the client method called for the k-th
\* (0-based) pass of the loop over the parsed values.
WriteCallAt(a, fr, k) ==
    LET reg_type == Lower(a.register_type)
    IN  IF reg_type = "holding"
        THEN IF a.write_mode = "single"
             THEN [NoCall EXCEPT !.method = "write_holding_register",
                                 !.address = fr.address + k,
                                 !.values = <<fr.parsed[k + 1]>>,
                                 !.signed = fr.signed]
             ELSE [NoCall EXCEPT !.method = "write_holding_registers",
                                 !.address = fr.address,
                                 !.values = fr.parsed,
                                 !.signed = fr.signed]
        ELSE IF a.write_mode = "single"
             THEN [NoCall EXCEPT !.method = "write_coil",
                                 !.address = fr.address + k,
                                 !.values = <<fr.parsed[k + 1]>>]
             ELSE [NoCall EXCEPT !.method = "write_coils",
                                 !.address = fr.address,
                                 !.values = fr.parsed]

\* A write loop that does not advance: every pass writes the first value to
\* the first address.
WriteCall_first_only(a, fr) == WriteCallAt(a, fr, 0)

\* The client method called for loop index i.
WriteCall(a, fr) == WriteCallAt(a, fr, fr.i)

\* The number of client method calls the write loop makes when none fails.
WriteCalls(a, fr) == IF a.write_mode = "single" THEN Len(fr.parsed) ELSE 1

\* The user-facing address is turned into the address on the wire.
WireAddress(a) == a.address - 1

WriteArgs ==
    [command : {"write"}, register_type : RegTypePool, address : AddrPool,
     count : {0}, values : SeqsUpTo(TokenPool, 1, MaxValues),
     unsigned : BOOLEAN, write_mode : {"multiple", "single"}]

HandleWrite ==
    /\ pc = "idle"
    /\ \E a \in WriteArgs :
        LET v == WriteCheck(a)
            fr == [address |-> WireAddress(a), signed |-> ~a.unsigned,
                   parsed |-> v.parsed, i |-> 0]
        IN  /\ args' = a
            /\ IF v.error # "none"
               THEN /\ pc' = "done"
                    /\ out' = [NoOut EXCEPT !.rc = 1, !.error = v.error,
                                            !.value = v.value,
                                            !.position = v.position]
                    /\ UNCHANGED <<frame, call>>
               ELSE /\ pc' = "enter"
                    /\ frame' = fr
                    /\ call' = WriteCall(a, fr)
                    /\ out' = NoOut
    /\ UNCHANGED <<open, log, inflight, enc>>

\* -------------------------------------------------- handle_read (cli.py)

\* A handle_read whose input branch calls the holding-register method.
ReadMethod_input_as_holding(reg_type) ==
    CASE reg_type \in {"holding", "input"} -> "read_holding_registers"
      [] reg_type = "coil" -> "read_coils"
      [] reg_type = "discrete" -> "read_discrete_inputs"

\* handle_read: the client method called for a register type.
ReadMethod(reg_type) ==
    CASE reg_type = "holding" -> "read_holding_registers"
      [] reg_type = "input" -> "read_input_registers"
      [] reg_type = "coil" -> "read_coils"
      [] reg_type = "discrete" -> "read_discrete_inputs"

ReadArgs ==
    [command : {"read"}, register_type : RegTypePool, address : AddrPool,
     count : 0..MaxCount, values : {<<>>}, unsigned : BOOLEAN,
     write_mode : {"multiple"}]

HandleRead ==
    /\ pc = "idle"
    /\ \E a \in ReadArgs :
        LET reg_type == Lower(a.register_type)
            fr == [NoFrame EXCEPT !.address = WireAddress(a),
                                  !.signed = ~a.unsigned]
        IN  /\ args' = a
            /\ IF reg_type \notin {"holding", "input", "coil", "discrete"}
               THEN /\ pc' = "done"
                    /\ out' = [NoOut EXCEPT !.rc = 1, !.error = "unknown_type"]
                    /\ UNCHANGED <<frame, call>>
               ELSE /\ pc' = "enter"
                    /\ frame' = fr
                    /\ call' = [NoCall EXCEPT !.method = ReadMethod(reg_type),
                                              !.address = fr.address,
                                              !.count = a.count,
                                              !.signed = fr.signed]
                    /\ out' = NoOut
    /\ UNCHANGED <<open, log, inflight, enc>>

\* --------------------------------------- ModbusClient methods (client.py)

ReadMethods == {"read_holding_registers", "read_input_registers", "read_coils",
                "read_discrete_inputs"}
RegisterReads == {"read_holding_registers", "read_input_registers"}
WriteMethods == {"write_holding_register", "write_holding_registers",
                 "write_coil", "write_coils"}

\* The errors handle_read and handle_write catch (ModbusClientError).
ClientErrors == {"ModbusConnectionError", "ModbusResponseError"}

\* A client method called directly, with arguments a caller may pass.
ApiCalls ==
    [method : RegisterReads, address : AddrPool, count : 0..MaxCount,
     values : {<<>>}, signed : BOOLEAN, raw : {<<>>}]
    \cup [method : {"read_coils", "read_discrete_inputs"}, address : AddrPool,
          count : 0..MaxCount, values : {<<>>}, signed : {TRUE}, raw : {<<>>}]
    \cup [method : {"write_holding_register"}, address : AddrPool, count : {0},
          values : SeqsUpTo(IntPool, 1, 1), signed : BOOLEAN, raw : {<<>>}]
    \cup [method : {"write_holding_registers"}, address : AddrPool, count : {0},
          values : SeqsUpTo(IntPool, 0, MaxValues), signed : BOOLEAN,
          raw : {<<>>}]
    \cup [method : {"write_coil"}, address : AddrPool, count : {0},
          values : SeqsUpTo(BOOLEAN, 1, 1), signed : {TRUE}, raw : {<<>>}]
    \cup [method : {"write_coils"}, address : AddrPool, count : {0},
          values : SeqsUpTo(BOOLEAN, 0, MaxValues), signed : {TRUE},
          raw : {<<>>}]

ApiCall ==
    /\ pc = "idle"
    /\ \E c \in ApiCalls :
        /\ args' = [NoArgs EXCEPT !.command = "api"]
        /\ call' = c
    /\ pc' = "enter"
    /\ UNCHANGED <<frame, open, log, inflight, out, enc>>

\* A holding-register write that sends the values as given, unencoded.
Encode_raw(v, is_signed) == v

\* The 16-bit word a validated value is sent as (write_holding_register and
\* write_holding_registers): two's complement in signed mode, else the value.
Encode(v, is_signed) == IF is_signed THEN _to_unsigned(v) ELSE v

\* What a method does before it connects: the values it refuses with a
\* ValueError (`index` is the enumerate() index it names), or the raw words
\* it is going to send.
MethodCheck(c) ==
    LET bad == FirstBad([k \in 1..Len(c.values) |->
                            RegistersInRange(c.values[k], c.signed)])
    IN  CASE c.method = "write_holding_register" ->
                 IF ~RegisterInRange(c.values[1], c.signed)
                 THEN [error |-> "ValueError", index |-> 0, raw |-> <<>>]
                 ELSE [error |-> "none", index |-> 0,
                       raw |-> <<Encode(c.values[1], c.signed)>>]
          [] c.method = "write_holding_registers" ->
                 IF c.values = <<>>
                 THEN [error |-> "ValueError", index |-> -1, raw |-> <<>>]
                 ELSE IF bad >= 0
                 THEN [error |-> "ValueError", index |-> bad, raw |-> <<>>]
                 ELSE [error |-> "none", index |-> 0,
                       raw |-> [k \in 1..Len(c.values) |->
                                   Encode(c.values[k], c.signed)]]
          [] c.method = "write_coils" ->
                 IF c.values = <<>>
                 THEN [error |-> "ValueError", index |-> -1, raw |-> <<>>]
                 ELSE [error |-> "none", index |-> 0, raw |-> c.values]
          [] c.method = "write_coil" ->
                 [error |-> "none", index |-> 0, raw |-> c.values]
          [] OTHER -> [error |-> "none", index |-> 0, raw |-> <<>>]

\* A write loop that catches the error of one value and goes on with the
\* next, reporting the outcome of the last.
Continue_past_errors(raised, values, index) ==
    IF args.command = "write" /\ frame.i + 1 < WriteCalls(args, frame)
    THEN LET fr == [frame EXCEPT !.i = frame.i + 1]
         IN  /\ pc' = "enter"
             /\ frame' = fr
             /\ call' = WriteCall(args, fr)
             /\ out' = out
    ELSE /\ pc' = "done"
         /\ out' = IF raised # "none"
                   THEN [NoOut EXCEPT !.rc = 1, !.error = raised,
                                      !.index = index]
                   ELSE [NoOut EXCEPT !.rc = 0, !.results = values]
         /\ UNCHANGED <<frame, call>>

\* The caller's continuation when the client method returns `values` or
\* raises `raised`: the handlers of cli.py, or the direct caller.
Continue(raised, values, index) ==
    IF raised # "none"
    THEN \* caught as ModbusClientError (return 1), or left uncaught (exit 1)
         /\ pc' = "done"
         /\ out' = [NoOut EXCEPT !.rc = 1, !.error = raised, !.index = index]
         /\ UNCHANGED <<frame, call>>
    ELSE IF args.command = "write" /\ frame.i + 1 < WriteCalls(args, frame)
    THEN LET fr == [frame EXCEPT !.i = frame.i + 1]
         IN  /\ pc' = "enter"
             /\ frame' = fr
             /\ call' = WriteCall(args, fr)
             /\ out' = out
    ELSE /\ pc' = "done"
         /\ out' = [NoOut EXCEPT !.rc = 0, !.results = values]
         /\ UNCHANGED <<frame, call>>

\* The connection attempts recorded in a log.
Connects(history) == SelectSeq(history, LAMBDA e : e.op = "connect")

\* A method that tries a second time when the first attempt fails.
Resume_retry(raised, values, index) ==
    IF raised \in ClientErrors /\ Len(Connects(log')) < 2
    THEN /\ pc' = "connect"
         /\ UNCHANGED <<frame, call, out>>
    ELSE Continue(raised, values, index)

\* A method ends, by return or raise, after its one attempt: control goes
\* back to the caller.
Resume(raised, values, index) == Continue(raised, values, index)

Enter ==
    /\ pc = "enter"
    /\ LET m == MethodCheck(call)
       IN  IF m.error # "none"
           THEN Resume(m.error, <<>>, m.index)
           ELSE /\ pc' = "connect"
                /\ call' = [call EXCEPT !.raw = m.raw]
                /\ UNCHANGED <<frame, out>>
    /\ UNCHANGED <<args, open, log, inflight, enc>>

\* ------------------------------------ the transport (pymodbus) as called

NoEvent == [op |-> "none", address |-> 0, count |-> 0, values |-> <<>>,
            outcome |-> "ok", reply |-> <<>>]

\* ModbusTcpClient.connect() returns True, or False when the device refuses
\* or does not answer within the timeout.
ConnectOutcomes == {"ok", "refused", "timeout"}

\* What a request can end in: a normal response; an exception response of
\* the device; no response within the timeout, which pymodbus reports by
\* returning or by raising a ModbusIOException, depending on its version;
\* another ModbusException; an exception of another class.
RequestOutcomes(c) ==
    {"exception_response", "timeout_returned", "timeout_raised",
     "modbus_exception", "other_exception"}
    \cup (IF c.method \in ReadMethods /\ c.count < 1 THEN {} ELSE {"ok"})

\* The ModbusTcpClient method a client method calls.
TransportOp(method) ==
    CASE method = "write_holding_register" -> "write_register"
      [] method = "write_holding_registers" -> "write_registers"
      [] OTHER -> method

\* A read that returns result.bits whole, padding included.
Slice_whole(seq, n) == seq

\* The first n elements of a list: Python's seq[:n], for n >= 0.
Slice(seq, n) == SubSeq(seq, 1, IF n < Len(seq) THEN n ELSE Len(seq))

\* The bits of a response: the coils asked for, padded to whole bytes.
Padded(bits) ==
    [k \in 1..(8 * ((Len(bits) + 7) \div 8)) |->
        IF k <= Len(bits) THEN bits[k] ELSE FALSE]

\* The payloads a normal response to the request can carry.
Replies(c, outcome) ==
    IF outcome # "ok" \/ c.method \notin ReadMethods THEN {<<>>}
    ELSE IF c.method \in RegisterReads THEN [1..c.count -> RegPool]
    ELSE {Padded(b) : b \in [1..c.count -> BOOLEAN]}

\* A method that reports a timed-out response as a connection error.
ExceptionOf_timeout_is_connection(outcome) ==
    CASE outcome \in {"timeout_returned", "timeout_raised"} ->
             "ModbusConnectionError"
      [] outcome \in {"exception_response", "modbus_exception"} ->
             "ModbusResponseError"
      [] outcome = "other_exception" -> "Other"
      [] OTHER -> "none"

\* A method that does not test result.isError().
ExceptionOf_isError_untested(outcome) ==
    CASE outcome \in {"timeout_raised", "modbus_exception"} ->
             "ModbusResponseError"
      [] outcome = "other_exception" -> "Other"
      [] OTHER -> "none"

\* The exception that leaves the try block of a method, by the outcome of the
\* transport call.
ExceptionOf(outcome) ==
    CASE outcome \in {"exception_response", "timeout_returned"} ->
             \* result.isError(): raise ModbusResponseError
             "ModbusResponseError"
      [] outcome \in {"timeout_raised", "modbus_exception"} ->
             \* except ModbusException: raise ModbusResponseError
             "ModbusResponseError"
      [] outcome = "other_exception" ->
             \* no except clause matches
             "Other"
      [] OTHER -> "none"

\* The try block of a method after the transport call: the exception that
\* leaves it, or the value it returns.
TryBlock(c, outcome, reply) ==
    IF ExceptionOf(outcome) # "none"
    THEN [exc |-> ExceptionOf(outcome), values |-> <<>>]
    ELSE IF c.method \in RegisterReads
    THEN [exc |-> "none",
          values |-> IF c.signed
                     THEN [k \in 1..Len(reply) |-> _to_signed(reply[k])]
                     ELSE reply]
    ELSE IF c.method \in ReadMethods
    THEN [exc |-> "none", values |-> Slice(reply, c.count)]
    ELSE [exc |-> "none", values |-> <<>>]

\* ModbusClient._connect
Connect ==
    /\ pc = "connect"
    /\ \E o \in ConnectOutcomes :
        /\ log' = Append(log, [NoEvent EXCEPT !.op = "connect", !.outcome = o])
        /\ IF o = "ok"
           THEN /\ open' = open + 1
                /\ pc' = "request"
                /\ UNCHANGED <<frame, call, out>>
           ELSE /\ open' = open
                /\ Resume("ModbusConnectionError", <<>>, -1)
    /\ UNCHANGED <<args, inflight, enc>>

\* The transport call inside `try`, and what the try block makes of it.
Request ==
    /\ pc = "request"
    /\ \E o \in RequestOutcomes(call) :
        \E reply \in Replies(call, o) :
            /\ log' = Append(log, [op |-> TransportOp(call.method),
                                   address |-> call.address,
                                   count |-> call.count,
                                   values |-> call.raw,
                                   outcome |-> o, reply |-> reply])
            /\ inflight' = TryBlock(call, o, reply)
    /\ pc' = "close"
    /\ UNCHANGED <<args, frame, call, open, out, enc>>

\* A method that never closes the connection it opened.
Closed_never(n, exc) == n

\* A method that closes the connection on its normal path only.
Closed_on_return_only(n, exc) == IF exc = "none" THEN n - 1 ELSE n

\* The open connections after `finally: client.close()`, whichever way (exc)
\* the try block was left.
Closed(n, exc) == n - 1

\* `finally: client.close()`, after which the method returns or raises.
Close ==
    /\ pc = "close"
    /\ log' = Append(log, [NoEvent EXCEPT !.op = "close"])
    /\ open' = Closed(open, inflight.exc)
    /\ inflight' = NoFlight
    /\ Resume(inflight.exc, inflight.values, -1)
    /\ UNCHANGED <<args, enc>>

\* The command is over (sys.exit); the next one starts from scratch.
Exit ==
    /\ pc = "done"
    /\ pc' = "idle"
    /\ args' = NoArgs
    /\ frame' = NoFrame
    /\ call' = NoCall
    /\ log' = <<>>
    /\ out' = NoOut
    /\ UNCHANGED <<open, inflight, enc>>

Init ==
    /\ pc = "idle"
    /\ args = NoArgs
    /\ frame = NoFrame
    /\ call = NoCall
    /\ open = 0
    /\ log = <<>>
    /\ inflight = NoFlight
    /\ out = NoOut
    /\ enc = NoEnc

Next ==
    \/ HandleWrite
    \/ HandleRead
    \/ ApiCall
    \/ Enter
    \/ Connect
    \/ Request
    \/ Close
    \/ Exit

Spec == Init /\ [][Next]_vars

\* ------------------------------------------- the encoding functions alone

\* The integers the encoding functions and the range tests are applied to.
EncInputs == (SignedMin - Margin) .. (UnsignedMax + Margin)

EncInit ==
    /\ pc = "idle"
    /\ args = NoArgs
    /\ frame = NoFrame
    /\ call = NoCall
    /\ open = 0
    /\ log = <<>>
    /\ inflight = NoFlight
    /\ out = NoOut
    /\ \E x \in EncInputs :
        enc = [x |-> x, val |-> x, steps |-> <<>>, is_signed |-> TRUE,
               verdict |-> <<>>]

\* One more encoding step may be applied: at most two, and never the same twice.
EncMayApply(f) ==
    /\ enc.verdict = <<>>
    /\ \/ enc.steps = <<>>
       \/ Len(enc.steps) = 1 /\ enc.steps[1] # f

EncToUnsigned ==
    /\ EncMayApply("_to_unsigned")
    /\ enc' = [enc EXCEPT !.val = _to_unsigned(enc.val),
                          !.steps = Append(enc.steps, "_to_unsigned")]
    /\ UNCHANGED prog

EncToSigned ==
    /\ EncMayApply("_to_signed")
    /\ enc' = [enc EXCEPT !.val = _to_signed(enc.val),
                          !.steps = Append(enc.steps, "_to_signed")]
    /\ UNCHANGED prog

\* The three range tests of the program, applied to the same value and mode.
EncValidate ==
    /\ enc.steps = <<>>
    /\ enc.verdict = <<>>
    /\ \E s \in BOOLEAN :
        enc' = [enc EXCEPT !.is_signed = s,
                           !.verdict = <<CliInRange(enc.x, s),
                                         RegisterInRange(enc.x, s),
                                         RegistersInRange(enc.x, s)>>]
    /\ UNCHANGED prog

EncNext == EncToUnsigned \/ EncToSigned \/ EncValidate

SpecEnc == EncInit /\ [][EncNext]_vars

\* ================================================================ claims

\* The requests recorded in a log: every transport call but connect and close.
Requests(history) ==
    SelectSeq(history, LAMBDA e : e.op \notin {"connect", "close"})

\* The --values of a command line as integers.
ParsedValues(a) == [k \in 1..Len(a.values) |-> ParseInt(a.values[k]).val]

AllNumbers(a) == \A k \in 1..Len(a.values) : ParseInt(a.values[k]).ok

\* The integers of an encoding mode.
ModeRange(unsigned) == IF unsigned THEN 0..65535 ELSE (-32768)..32767

AllInRange(a) ==
    /\ AllNumbers(a)
    /\ \A k \in 1..Len(a.values) : ParsedValues(a)[k] \in ModeRange(a.unsigned)

HoldingWrite == args.command = "write" /\ Lower(args.register_type) = "holding"

ReadOnlyWrite ==
    args.command = "write" /\ Lower(args.register_type) \in {"input", "discrete"}

\* C1: a write command whose register type is input or discrete, whatever its
\* address, values and write mode, is rejected (exit status 1, read-only
\* error) without any transport call: nothing is logged, no connection is
\* open, no client method is entered.
C1_ReadOnlyWriteRejected ==
    ReadOnlyWrite =>
        /\ pc = "done"
        /\ out.rc = 1
        /\ out.error = "read_only"
        /\ log = <<>>
        /\ open = 0
        /\ call = NoCall

C1_Witness ==
    /\ ReadOnlyWrite
    /\ pc = "done"
    /\ args.register_type = "discrete"
    /\ args.write_mode = "single"
    /\ args.values = <<Word(1), Word(0)>>
    /\ log = <<>>

\* C2: holding-register validation is all-or-nothing.  A write command, in
\* either write mode and either encoding mode, one of whose values is out of
\* the mode's range fails with the range error naming the first offending
\* value and its 1-based position, and no transport call is made at all, also
\* when valid values precede the offending one; a batch with a word that is
\* no number fails without a transport call as well.  write_holding_registers
\* called directly refuses such a list with a ValueError naming the index,
\* before it connects.
C2_ValidationAllOrNothing ==
    /\ (HoldingWrite /\ ~AllInRange(args)) =>
           /\ pc = "done"
           /\ out.rc = 1
           /\ log = <<>>
           /\ open = 0
    /\ (HoldingWrite /\ AllNumbers(args) /\ ~AllInRange(args)) =>
           /\ out.error = "out_of_range"
           /\ out.position \in 1..Len(args.values)
           /\ out.value = ParsedValues(args)[out.position]
           /\ out.value \notin ModeRange(args.unsigned)
           /\ \A k \in 1..(out.position - 1) :
                  ParsedValues(args)[k] \in ModeRange(args.unsigned)
    /\ (/\ args.command = "api"
        /\ call.method = "write_holding_registers"
        /\ \E k \in 1..Len(call.values) :
               call.values[k] \notin ModeRange(~call.signed)) =>
           /\ pc \in {"enter", "done"}
           /\ log = <<>>
           /\ open = 0
           /\ pc = "done" =>
                  /\ out.error = "ValueError"
                  /\ out.index \in 0..(Len(call.values) - 1)
                  /\ call.values[out.index + 1] \notin ModeRange(~call.signed)

C2_Witness ==
    /\ HoldingWrite
    /\ pc = "done"
    /\ args.values = <<Word(1500), Word(40000)>>
    /\ ~args.unsigned
    /\ args.write_mode = "single"
    /\ out.error = "out_of_range"
    /\ out.value = 40000
    /\ out.position = 2
    /\ log = <<>>

\* C3: each of the three range tests of the program (handle_write,
\* write_holding_register, write_holding_registers) accepts exactly
\* -32768..32767 in signed mode and exactly 0..65535 in unsigned mode.
C3_RangeExact ==
    enc.verdict # <<>> =>
        \A site \in 1..3 :
            enc.verdict[site] = (enc.x \in ModeRange(~enc.is_signed))

C3_Witness ==
    /\ enc.x = 32768
    /\ enc.is_signed
    /\ enc.verdict = <<FALSE, FALSE, FALSE>>

\* C4: _to_unsigned is v mod 65536 and _to_signed is raw below 32768 and
\* raw - 65536 from there on, and the two are mutually inverse: decoding the
\* encoding of x in -32768..32767 gives x, and encoding the decoding of raw in
\* 0..65535 gives raw.
C4_RoundTrip ==
    /\ enc.steps = <<"_to_unsigned">> => enc.val = enc.x % 65536
    /\ (enc.steps = <<"_to_signed">> /\ enc.x \in 0..65535) =>
           /\ enc.val \in (-32768)..32767
           /\ enc.x < 32768 => enc.val = enc.x
           /\ enc.x >= 32768 => enc.val = enc.x - 65536
    /\ (enc.steps = <<"_to_unsigned", "_to_signed">>
        /\ enc.x \in (-32768)..32767) => enc.val = enc.x
    /\ (enc.steps = <<"_to_signed", "_to_unsigned">>
        /\ enc.x \in 0..65535) => enc.val = enc.x

C4_Witness ==
    /\ enc.steps = <<"_to_unsigned", "_to_signed">>
    /\ enc.x = -200
    /\ enc.val = -200

\* C5: a holding-register write in multiple mode whose values are all in range
\* never issues a single-register write; once connected it issues exactly one
\* write_registers request, at the address handle_write passes on, carrying
\* the values in input order, each as its value mod 65536; when the connection
\* attempt fails no request is issued.
C5_OneMultiWrite ==
    (HoldingWrite /\ args.write_mode = "multiple" /\ AllInRange(args)) =>
        LET reqs == Requests(log)
        IN  /\ Len(reqs) <= 1
            /\ \A k \in 1..Len(reqs) :
                   /\ reqs[k].op = "write_registers"
                   /\ reqs[k].address = frame.address
                   /\ reqs[k].values =
                          [j \in 1..Len(args.values) |->
                              ParsedValues(args)[j] % 65536]
            /\ pc \in {"close", "done"} =>
                   Len(reqs) = (IF log[1].outcome = "ok" THEN 1 ELSE 0)

C5_Witness ==
    /\ HoldingWrite
    /\ pc = "done"
    /\ out.rc = 0
    /\ ~args.unsigned
    /\ args.values = <<Word(1500), Word(-200), Word(300)>>
    /\ Len(Requests(log)) = 1
    /\ Requests(log)[1].op = "write_registers"
    /\ Requests(log)[1].values = <<1500, 65336, 300>>

\* C6: a holding-register write in single mode with n values in range issues
\* single-register writes only, in increasing order of the index: the k-th
\* request made goes to the address handle_write passes on plus k - 1 and
\* carries the k-th value mod 65536; when the command succeeds (no transport
\* failure) there are exactly n of them.
C6_SingleWritesInOrder ==
    (HoldingWrite /\ args.write_mode = "single" /\ AllInRange(args)) =>
        LET reqs == Requests(log)
        IN  /\ Len(reqs) <= Len(args.values)
            /\ \A k \in 1..Len(reqs) :
                   /\ reqs[k].op = "write_register"
                   /\ reqs[k].address = frame.address + (k - 1)
                   /\ reqs[k].values = <<ParsedValues(args)[k] % 65536>>
            /\ (pc = "done" /\ out.rc = 0) => Len(reqs) = Len(args.values)

C6_Witness ==
    /\ HoldingWrite
    /\ args.write_mode = "single"
    /\ pc = "done"
    /\ out.rc = 0
    /\ ~args.unsigned
    /\ args.values = <<Word(1500), Word(-200)>>
    /\ Len(Requests(log)) = 2
    /\ Requests(log)[1].values = <<1500>>
    /\ Requests(log)[2].values = <<65336>>
    /\ Requests(log)[2].address = Requests(log)[1].address + 1

\* C7: a connection is open only between a method's successful connect and
\* its `finally`: whenever a method has returned or raised, by whatever path,
\* and so after every command, no connection is open, and every successful
\* connect in the log has its close.
C7_ConnectionClosed ==
    /\ pc \in {"idle", "enter", "connect", "done"} =>
           /\ open = 0
           /\ Len(SelectSeq(log, LAMBDA e : e.op = "close"))
                  = Len(SelectSeq(log, LAMBDA e : e.op = "connect"
                                                  /\ e.outcome = "ok"))
    /\ pc \in {"request", "close"} => open = 1

C7_Witness ==
    /\ pc = "done"
    /\ open = 0
    /\ out.error = "Other"
    /\ Len(log) = 3
    /\ log[2].outcome = "other_exception"
    /\ log[3].op = "close"

ConnectTimedOut ==
    \E k \in 1..Len(log) : log[k].op = "connect" /\ log[k].outcome = "timeout"

ResponseTimedOut ==
    \E k \in 1..Len(log) :
        log[k].outcome \in {"timeout_returned", "timeout_raised"}

C9_ErrorResponseFails ==
    /\ (pc = "done"
        /\ \E k \in 1..Len(log) : log[k].outcome = "exception_response") =>
           /\ out.rc = 1
           /\ out.error = "ModbusResponseError"
           /\ out.results = <<>>
    /\ inflight.exc # "none" => inflight.values = <<>>

C9_Witness ==
    /\ pc = "done"
    /\ args.command = "read"
    /\ call.method = "read_holding_registers"
    /\ call.count = 2
    /\ Len(log) = 3
    /\ log[2].outcome = "exception_response"
    /\ out.error = "ModbusResponseError"

\* The commands that call one client method once.
SingleCall ==
    \/ args.command \in {"read", "api"}
    \/ args.command = "write" /\ args.write_mode = "multiple"

\* C10: nothing is retried.  A failed connection attempt is the last transport
\* call of the command; a request is the only one on its connection; after a
\* request that failed only the close follows.  A read, and a multi-register
\* or multi-coil write, makes at most one connection attempt and one request,
\* and exactly one attempt once it is past its argument checks.
C10_NoRetry ==
    /\ \A k \in 1..Len(log) :
           /\ (log[k].op = "connect" /\ log[k].outcome # "ok") => k = Len(log)
           /\ log[k].op \notin {"connect", "close"} =>
                  /\ k > 1
                  /\ log[k - 1].op = "connect"
                  /\ log[k - 1].outcome = "ok"
                  /\ k < Len(log) => log[k + 1].op = "close"
                  /\ log[k].outcome # "ok" => Len(log) <= k + 1
    /\ SingleCall =>
           /\ Len(Connects(log)) <= 1
           /\ Len(Requests(log)) <= 1
           /\ (pc = "done" /\ out.error \in ClientErrors \cup {"none", "Other"})
                  => Len(Connects(log)) = 1

C10_Witness ==
    /\ pc = "done"
    /\ args.command = "read"
    /\ log = <<[NoEvent EXCEPT !.op = "connect", !.outcome = "timeout"]>>
    /\ out.error = "ModbusConnectionError"

\* The transport read primitive of a register type.
ReadPrimitive(t) ==
    CASE t = "holding" -> "read_holding_registers"
      [] t = "input" -> "read_input_registers"
      [] t = "coil" -> "read_coils"
      [] t = "discrete" -> "read_discrete_inputs"

\* The register words of a response as the values of an encoding mode.
Decoded(raw, is_signed) ==
    [k \in 1..Len(raw) |->
        IF is_signed /\ raw[k] >= 32768 THEN raw[k] - 65536 ELSE raw[k]]

RegisterReadCommand ==
    args.command = "read" /\ Lower(args.register_type) \in {"holding", "input"}

BitReadCommand ==
    args.command = "read" /\ Lower(args.register_type) \in {"coil", "discrete"}

\* C11: a read of holding or input registers makes at most one request, the
\* read primitive of its own register type, for the count asked and starting
\* at the address the handler passes on; when it succeeds it made exactly one,
\* and returns the words of the response in order, each decoded as a signed
\* 16-bit number in signed mode and unchanged in unsigned mode.  The same
\* holds of read_holding_registers and read_input_registers called directly.
C11_RegisterReadDecoded ==
    /\ RegisterReadCommand =>
           LET reqs == Requests(log)
           IN  /\ Len(reqs) <= 1
               /\ \A k \in 1..Len(reqs) :
                      /\ reqs[k].op = ReadPrimitive(Lower(args.register_type))
                      /\ reqs[k].address = frame.address
                      /\ reqs[k].count = args.count
               /\ (pc = "done" /\ out.rc = 0) =>
                      /\ Len(reqs) = 1
                      /\ Len(out.results) = args.count
                      /\ out.results = Decoded(reqs[1].reply, ~args.unsigned)
    /\ (args.command = "api" /\ call.method \in RegisterReads) =>
           LET reqs == Requests(log)
           IN  /\ Len(reqs) <= 1
               /\ \A k \in 1..Len(reqs) :
                      /\ reqs[k].op = call.method
                      /\ reqs[k].address = call.address
                      /\ reqs[k].count = call.count
               /\ (pc = "done" /\ out.rc = 0) =>
                      /\ Len(reqs) = 1
                      /\ out.results = Decoded(reqs[1].reply, call.signed)

C11_Witness ==
    /\ RegisterReadCommand
    /\ args.register_type = "input"
    /\ ~args.unsigned
    /\ args.count = 2
    /\ pc = "done"
    /\ out.rc = 0
    /\ Requests(log)[1].op = "read_input_registers"
    /\ Requests(log)[1].reply = <<65336, 32768>>
    /\ out.results = <<-200, -32768>>

\* C12: a read of coils or discrete inputs makes at most one request, the
\* read primitive of its own register type; when it succeeds it returns
\* exactly the booleans the response holds for the count positions asked,
\* in order and without the response's padding, whichever of the signed and
\* unsigned modes is selected.
C12_BitReadUnchanged ==
    /\ BitReadCommand =>
           LET reqs == Requests(log)
           IN  /\ Len(reqs) <= 1
               /\ \A k \in 1..Len(reqs) :
                      /\ reqs[k].op = ReadPrimitive(Lower(args.register_type))
                      /\ reqs[k].count = args.count
               /\ (pc = "done" /\ out.rc = 0) =>
                      /\ Len(reqs) = 1
                      /\ out.results =
                             [k \in 1..args.count |-> reqs[1].reply[k]]
    /\ (args.command = "api"
        /\ call.method \in {"read_coils", "read_discrete_inputs"}) =>
           LET reqs == Requests(log)
           IN  /\ \A k \in 1..Len(reqs) : reqs[k].op = call.method
               /\ (pc = "done" /\ out.rc = 0) =>
                      out.results = [k \in 1..call.count |-> reqs[1].reply[k]]

C12_Witness ==
    /\ BitReadCommand
    /\ args.register_type = "discrete"
    /\ args.unsigned
    /\ args.count = 2
    /\ pc = "done"
    /\ out.rc = 0
    /\ Requests(log)[1].op = "read_discrete_inputs"
    /\ Len(Requests(log)[1].reply) = 8
    /\ out.results = <<TRUE, FALSE>>

\* C13: the addresses of the command line are 0-based: every request of a
\* read or write command starts at the --address entered, the k-th request of
\* a single-mode write at --address + k - 1.
C13_AddressAsEntered ==
    args.command \in {"read", "write"} =>
        LET reqs == Requests(log)
        IN  \A k \in 1..Len(reqs) :
                reqs[k].address =
                    args.address
                    + (IF args.command = "write" /\ args.write_mode = "single"
                       THEN k - 1 ELSE 0)

\* C14: every read request sent has count >= 1 and every multi-register or
\* multi-coil write request sent has a non-empty list of values; a read with
\* count < 1 and a multi write with an empty list never reach the transport:
\* nothing is logged and no connection is opened.
C14_NonEmptyRun ==
    /\ \A k \in 1..Len(log) :
           /\ log[k].op \in ReadMethods => log[k].count >= 1
           /\ log[k].op \in {"write_registers", "write_coils"} =>
                  log[k].values # <<>>
    /\ (\/ call.method \in ReadMethods /\ call.count < 1
        \/ /\ call.method \in {"write_holding_registers", "write_coils"}
           /\ call.values = <<>>) =>
           log = <<>> /\ open = 0

CoilWrite == args.command = "write" /\ Lower(args.register_type) = "coil"

AllCoilWords(a) == \A k \in 1..Len(a.values) : a.values[k] \in {<<"0">>, <<"1">>}

\* The booleans a list of coil words stands for: "1" is true, "0" is false.
CoilBits(a) == [k \in 1..Len(a.values) |-> a.values[k] = <<"1">>]

\* C15: a coil write command one of whose values is not the word 0 or 1 fails
\* (exit status 1, naming the first such value's position) without any
\* transport call.  When all values are 0 or 1 only coil writes are issued,
\* 1 as true and 0 as false: in multiple mode at most one write_coils request
\* with the whole list, in single mode one write_coil request per value, the
\* k-th at the address handle_write passes on plus k - 1, in order; when the
\* command succeeds, exactly one, and exactly one per value.
C15_CoilValues ==
    /\ (CoilWrite /\ ~AllCoilWords(args)) =>
           /\ pc = "done"
           /\ out.rc = 1
           /\ out.error = "invalid_coil"
           /\ out.position \in 1..Len(args.values)
           /\ args.values[out.position] \notin {<<"0">>, <<"1">>}
           /\ log = <<>>
           /\ open = 0
    /\ (CoilWrite /\ AllCoilWords(args) /\ args.write_mode = "multiple") =>
           LET reqs == Requests(log)
           IN  /\ Len(reqs) <= 1
               /\ \A k \in 1..Len(reqs) :
                      /\ reqs[k].op = "write_coils"
                      /\ reqs[k].address = frame.address
                      /\ reqs[k].values = CoilBits(args)
               /\ (pc = "done" /\ out.rc = 0) => Len(reqs) = 1
    /\ (CoilWrite /\ AllCoilWords(args) /\ args.write_mode = "single") =>
           LET reqs == Requests(log)
           IN  /\ Len(reqs) <= Len(args.values)
               /\ \A k \in 1..Len(reqs) :
                      /\ reqs[k].op = "write_coil"
                      /\ reqs[k].address = frame.address + (k - 1)
                      /\ reqs[k].values = <<CoilBits(args)[k]>>
               /\ (pc = "done" /\ out.rc = 0) => Len(reqs) = Len(args.values)

C15_Witness ==
    /\ CoilWrite
    /\ args.values = <<Word(1), Word(0), Word(1)>>
    /\ args.write_mode = "single"
    /\ pc = "done"
    /\ out.rc = 0
    /\ Len(Requests(log)) = 3
    /\ Requests(log)[1].values = <<TRUE>>
    /\ Requests(log)[2].values = <<FALSE>>
    /\ Requests(log)[3].address = Requests(log)[1].address + 2

SingleModeWrite ==
    /\ args.command = "write"
    /\ args.write_mode = "single"
    /\ Lower(args.register_type) \in {"holding", "coil"}

\* The requests of a log that the device answered normally.
Answered(history) == SelectSeq(Requests(history), LAMBDA e : e.outcome = "ok")

\* C16: when, in a single-mode write, the write of the value with index k
\* fails with a connection or a response error, the command ends with exit
\* status 1; the writes of the indices 0..k-1 were sent, each at its own
\* address, and answered normally, and nothing was sent to undo them; the
\* failed attempt is the last connection attempt, so no request exists for
\* an index above k.
C16_StopsAtFirstFailure ==
    (pc = "done" /\ SingleModeWrite /\ out.error \in ClientErrors) =>
        LET reqs == Requests(log)
            k == Len(Answered(log))
        IN  /\ out.rc = 1
            /\ k < Len(args.values)
            /\ frame.i = k
            /\ Len(Connects(log)) = k + 1
            /\ Len(reqs) \in {k, k + 1}
            /\ \A j \in 1..Len(reqs) :
                   /\ reqs[j].address = frame.address + (j - 1)
                   /\ reqs[j].op \in {"write_register", "write_coil"}
                   /\ reqs[j].outcome = "ok" <=> j <= k
            /\ Len(reqs) = k <=> out.error = "ModbusConnectionError"

C16_Witness ==
    /\ pc = "done"
    /\ SingleModeWrite
    /\ Len(args.values) = 3
    /\ out.error = "ModbusResponseError"
    /\ out.rc = 1
    /\ Len(Answered(log)) = 1
    /\ Len(Requests(log)) = 2
    /\ Requests(log)[2].outcome = "exception_response"

\* C17: at most one connection is open at any time, and the connections of
\* a command follow one another: a connection is attempted only at the start
\* or right after the close of the one before, every connection that was
\* opened carries exactly one request, and the number open is the number
\* opened and not yet closed.
C17_OneConnectionAtATime ==
    /\ open \in {0, 1}
    /\ open = Len(SelectSeq(log, LAMBDA e : e.op = "connect" /\ e.outcome = "ok"))
              - Len(SelectSeq(log, LAMBDA e : e.op = "close"))
    /\ \A k \in 1..Len(log) :
           /\ log[k].op = "connect" => (k = 1 \/ log[k - 1].op = "close")
           /\ log[k].op = "close" =>
                  /\ k > 2
                  /\ log[k - 1].op \notin {"connect", "close"}
                  /\ log[k - 2].op = "connect"
           /\ (log[k].op = "connect" /\ log[k].outcome = "ok" /\ k + 1 < Len(log))
                  => log[k + 2].op = "close"

C17_Witness ==
    /\ SingleModeWrite
    /\ pc = "request"
    /\ open = 1
    /\ Len(log) = 4
    /\ log[3].op = "close"
    /\ log[4].op = "connect"
    /\ frame.i = 1

====
